---- MODULE Spec2Model ----
(***************************************************************************)
(* Model of the raffle discovery-and-entry engine of                       *)
(* scraptf-auto-raffle-util (src/utils.py, src/enter_raffles.py).          *)
(*                                                                         *)
(* One run of try_enter_all_raffles against a nondeterministic upstream:   *)
(* every page and every JSON response is chosen by the upstream at the     *)
(* moment the request is served.  The transport is assumed to deliver a    *)
(* response to every request (mechanize errors are outside the model).     *)
(* Python values of several types (a count or False, a JSON value) are     *)
(* records with a "type" field, so that False and 0 stay distinguishable.  *)
(***************************************************************************)
EXTENDS Integers, Sequences, FiniteSets, TLC

VARIABLES
    listing,            \* upstream: the open raffles, newest first
    accepted,           \* upstream: number of entry submissions it accepted
    pc,                 \* position of the run of try_enter_all_raffles
    csrf,               \* try_enter_all_raffles: csrf (main page token)
    lastid,             \* get_all_raffles: lastid
    raffles,            \* get_all_raffles: raffles (the accumulated list)
    gar,                \* how the call of get_all_raffles ended
    unentered,          \* try_enter_all_raffles: unentered
    i,                  \* try_enter_all_raffles: loop index i
    new_entered_cnt,    \* try_enter_all_raffles: new_entered_cnt
    total_entered_cnt,  \* try_enter_all_raffles: total_entered_cnt
    post_data,          \* try_enter_raffle: post_data
    inflight,           \* the EnterRaffle response not yet read by the client
    json_resp,          \* the JSON response parsed last
    ret,                \* value returned by try_enter_all_raffles
    err,                \* exception that left try_enter_all_raffles unhandled
    interrupted_at,     \* pc at which KeyboardInterrupt was raised, if any
    requests,           \* history: every request issued through br.open
    batches,            \* history: every Paginate response, as parsed
    attempts,           \* history: argument of every try_enter_raffle call
    outcomes,           \* history: how every try_enter_raffle call ended
    sleeps,             \* history: for every sleep call, the attempts before it
    mpc,                \* position of main
    num_resp,           \* main: num_resp, as returned by get_num_raffles
    cookies_saved,      \* main: number of calls of cj.save
    printed,            \* main: what it printed about the raffle stats
    scanned,            \* the page handed to get_csrf_hash on its own
    first               \* the result of an earlier run of the script, if any

\* what the run of try_enter_all_raffles leaves alone
aux == <<mpc, num_resp, cookies_saved, printed, scanned, first>>

vars == <<listing, accepted, pc, csrf, lastid, raffles, gar, unentered, i,
          new_entered_cnt, total_entered_cnt, post_data, inflight, json_resp,
          ret, err, interrupted_at, requests, batches, attempts, outcomes,
          sleeps, mpc, num_resp, cookies_saved, printed, scanned, first>>

-----------------------------------------------------------------------------
(* Bounds of the model *)

MaxRaffles == 3     \* raffles in the upstream listing
MaxBatch == 2       \* raffle panels in one Paginate response
MaxPages == 3       \* Paginate calls of one run
MaxScripts == 2     \* script blocks of a page

-----------------------------------------------------------------------------
(* Sequences *)

Reverse(s) == [k \in 1..Len(s) |-> s[Len(s) + 1 - k]]

IsPrefix(s, t) == Len(s) <= Len(t) /\ SubSeq(t, 1, Len(s)) = s

Last(s) == s[Len(s)]

Min(a, b) == IF a < b THEN a ELSE b

RECURSIVE SeqsUpTo(_, _)
SeqsUpTo(S, n) ==
    IF n = 0 THEN {<<>>}
    ELSE LET shorter == SeqsUpTo(S, n - 1)
         IN shorter \cup {Append(s, x) : s \in {t \in shorter : Len(t) = n - 1}, x \in S}

-----------------------------------------------------------------------------
(* Python and JSON values *)

None == "None"

JBool(b) == [type |-> "bool", bool |-> b, str |-> "", num |-> 0]
JStr(s) == [type |-> "str", bool |-> FALSE, str |-> s, num |-> 0]
JNum(n) == [type |-> "int", bool |-> FALSE, str |-> "", num |-> n]
JNull == [type |-> "NoneType", bool |-> FALSE, str |-> "", num |-> 0]

JsonValues == {JBool(TRUE), JBool(FALSE), JStr("yes"), JNum(1), JNull}

\* Python truthiness, as used by "if not success"
Truthy(v) ==
    CASE v.type = "bool" -> v.bool
      [] v.type = "str" -> v.str # ""
      [] v.type = "int" -> v.num # 0
      [] OTHER -> FALSE

\* what try_enter_all_raffles hands back to main
ReturnInt(n) == [type |-> "int", int |-> n, bool |-> FALSE]
ReturnFalse == [type |-> "bool", int |-> 0, bool |-> FALSE]
NoReturn == [type |-> "none", int |-> 0, bool |-> FALSE]

-----------------------------------------------------------------------------
(* Raffle identifiers: short strings, as sequences of characters *)

UpperChar(c) ==
    CASE c = "a" -> "A"
      [] c = "b" -> "B"
      [] c = "c" -> "C"
      [] c = "d" -> "D"
      [] OTHER -> c

\* mutant of Upper: the identifier is used as received
Upper_AsReceived(id) == id

\* str.upper()
Upper(id) == [k \in 1..Len(id) |-> UpperChar(id[k])]

\* identifiers the upstream hands out, newest first
RafflePool ==
    << <<"A", "5">>, <<"b", "4">>, <<"a", "5">>, <<"C", "2">>, <<"d", "1">>, <<"B", "0">> >>

EmptyId == <<>>

-----------------------------------------------------------------------------
(* Pages *)

Tokens == {"t1", "t2"}

\* a script block: whether it holds the marker 'ScrapTF.User.Hash', and the
\* text between the '=' after the marker and the end of that line
ScriptBlocks == [marker : BOOLEAN, value : Tokens]

\* the 'raffle-enter' button: absent, or the arguments of its onclick call
NoButton == [present |-> FALSE, args |-> <<>>]
Buttons == {NoButton} \cup {[present |-> TRUE, args |-> a] : a \in {<<"x">>, <<"x", "h1">>}}

MainPages == {[scripts |-> s, button |-> NoButton] : s \in SeqsUpTo(ScriptBlocks, MaxScripts)}

RafflePages == [scripts : SeqsUpTo(ScriptBlocks, MaxScripts), button : Buttons]

\* mutant of ScanScripts: the loop stops at the first block with the marker
RECURSIVE ScanScripts_FirstWins(_, _)
ScanScripts_FirstWins(scripts, found) ==
    IF scripts = <<>> THEN found
    ELSE IF Head(scripts).marker THEN Head(scripts).value
    ELSE ScanScripts_FirstWins(Tail(scripts), found)

\* get_csrf_hash: the loop over soup.find_all('script')
RECURSIVE ScanScripts(_, _)
ScanScripts(scripts, found) ==
    IF scripts = <<>> THEN found
    ELSE ScanScripts(Tail(scripts),
                     IF Head(scripts).marker THEN Head(scripts).value ELSE found)

\* get_csrf_hash: every script block holding the marker assigns csrf
get_csrf_hash(page) == ScanScripts(page.scripts, None)

-----------------------------------------------------------------------------
(* The upstream's Paginate endpoint *)

CursorPos(cursor) ==
    IF \E k \in 1..Len(listing) : listing[k].id = cursor
    THEN CHOOSE k \in 1..Len(listing) : listing[k].id = cursor
    ELSE 0

\* the panels the upstream may send for a cursor: some of the raffles older
\* than the cursor, newest first
PanelsAfter(cursor) ==
    LET p == CursorPos(cursor)
    IN {SubSeq(listing, p + 1, p + k) : k \in 0..Min(MaxBatch, Len(listing) - p)}

PaginateResponses(cursor) ==
    [success : JsonValues, html : PanelsAfter(cursor), done : BOOLEAN]

EnterResponses == [success : JsonValues, has_message : BOOLEAN]

NoResponse == [op |-> "none", success |-> JNull]
NoPostData == [raffle |-> EmptyId, hash |-> "", csrf |-> ""]

NoInflight == [success |-> JNull, has_message |-> FALSE]

Request(op, id, hash, token) == [op |-> op, id |-> id, hash |-> hash, csrf |-> token]

\* how one call of try_enter_raffle ended, and the 'success' field it read
Outcome(how, success) == [ret |-> how, success |-> success]
JAbsent == [type |-> "absent", bool |-> FALSE, str |-> "", num |-> 0]

\* get_num_raffles: not called yet, False, or the pair (entered, total)
NotCalled == "not called"
NumFalse == "False"
NumPair == "(entered, total)"

\* get_num_raffles raised ValueError and returned nothing
NumRaised == "ValueError"

\* the main page as get_num_raffles reads it: without the 'raffle-list-stat'
\* div, without an h1 in it, with an h1 reading 'entered/total', or with an
\* h1 that does not read so
StatPages == {"no stat", "no h1", "entered/total", "other text"}

\* get_num_raffles
get_num_raffles(stat_page) ==
    CASE stat_page = "no stat" -> NumFalse
      [] stat_page = "no h1" -> NumFalse
      [] stat_page = "entered/total" -> NumPair
      [] OTHER -> NumRaised

\* main: "if num_resp is None"
StatsMissing(num) == num = None

NoPage == [scripts |-> <<>>, button |-> NoButton]

NoFirst == [how |-> "none", ret |-> NoReturn]

Listings ==
    UNION {{[k \in 1..n |-> [id |-> RafflePool[k], entered |-> f[k]]] : f \in [1..n -> BOOLEAN]}
           : n \in 0..MaxRaffles}

-----------------------------------------------------------------------------
(* Pure parts of the code *)

\* mutant of MainTokenAbsent: the test is for the empty string, not for None
MainTokenAbsent_EmptyString(token) == token = ""

\* try_enter_all_raffles: "if csrf is None"
MainTokenAbsent(token) == token = None

\* mutant of BatchFailed: only a missing 'success' counts as failure
BatchFailed_OnlyAbsent(success) == success.type = "absent"

\* get_raffle_batch: "if not success: return False"
BatchFailed(success) == ~Truthy(success)

\* get_raffle_batch: False, or the parsed panels and the 'done' flag
get_raffle_batch(resp) ==
    IF BatchFailed(resp.success)
    THEN [ok |-> FALSE, raffles |-> <<>>, done |-> FALSE]
    ELSE [ok |-> TRUE, raffles |-> resp.html, done |-> resp.done]

\* mutant of Partition: every raffle is counted as entered
Partition_CountsAll(rs) ==
    LET rev == Reverse(rs)
        open == SelectSeq(rev, LAMBDA r : ~r.entered)
    IN [unentered |-> [k \in 1..Len(open) |-> open[k].id],
        total_entered_cnt |-> Len(rev)]

\* mutant of Partition: the raffles marked entered are not left out
Partition_KeepsEntered(rs) ==
    LET rev == Reverse(rs)
        closed == SelectSeq(rev, LAMBDA r : r.entered)
    IN [unentered |-> [k \in 1..Len(rev) |-> rev[k].id],
        total_entered_cnt |-> Len(closed)]

\* try_enter_all_raffles: the loop over reversed(raffles) that builds
\* unentered and counts the raffles already entered
Partition(rs) ==
    LET rev == Reverse(rs)
        open == SelectSeq(rev, LAMBDA r : ~r.entered)
        closed == SelectSeq(rev, LAMBDA r : r.entered)
    IN [unentered |-> [k \in 1..Len(open) |-> open[k].id],
        total_entered_cnt |-> Len(closed)]

\* mutant of DetailTokenAbsent: the test is for the empty string, not for None
DetailTokenAbsent_EmptyString(token) == token = ""

\* try_enter_raffle: "if csrf is None"
DetailTokenAbsent(token) == token = None

\* try_enter_all_raffles: "enumerate(reversed(unentered))"
LoopOrder(un) == Reverse(un)

\* mutant of BreaksLoop: the else branch reports the failure and goes on
BreaksLoop_Never(ok) == FALSE

\* try_enter_all_raffles: the else branch of the attempt ends in "break"
BreaksLoop(ok) == ~ok

\* mutant of ShouldSleep: "if i < len(unentered)"
ShouldSleep_OffByOne(idx, un) == idx < Len(un)

\* try_enter_all_raffles: "if i < len(unentered) - 1"
ShouldSleep(idx, un) == idx < Len(un) - 1

\* mutant of IsSuccess: "return bool(success)"
IsSuccess_Truthy(success) == Truthy(success)

\* try_enter_raffle: "if type(success) == bool: return success / else: return False"
IsSuccess(success) == IF success.type = "bool" THEN success.bool ELSE FALSE

-----------------------------------------------------------------------------
(* The run *)

Init ==
    /\ listing \in Listings
    /\ accepted = 0
    /\ pc = "start"
    /\ csrf = None
    /\ lastid = EmptyId
    /\ raffles = <<>>
    /\ gar = "none"
    /\ unentered = <<>>
    /\ i = 0
    /\ new_entered_cnt = 0
    /\ total_entered_cnt = 0
    /\ post_data = NoPostData
    /\ inflight = NoInflight
    /\ json_resp = NoResponse
    /\ ret = NoReturn
    /\ err = None
    /\ interrupted_at = None
    /\ requests = <<>>
    /\ batches = <<>>
    /\ attempts = <<>>
    /\ outcomes = <<>>
    /\ sleeps = <<>>
    /\ mpc = "run"
    /\ num_resp = NotCalled
    /\ cookies_saved = 0
    /\ printed = ""
    /\ scanned = NoPage
    /\ first = NoFirst

\* an exception other than KeyboardInterrupt leaves try_enter_all_raffles
Raise(e) ==
    /\ pc' = "raised"
    /\ err' = e

\* "return new_entered_cnt" after the try block
\* a variant that returns the total of entered raffles, the ones entered
\* before the run included
ReturnCount_Total(n) ==
    /\ pc' = "returned"
    /\ ret' = ReturnInt(n + (total_entered_cnt - new_entered_cnt))

ReturnCount(n) ==
    /\ pc' = "returned"
    /\ ret' = ReturnInt(n)

\* the for loop moves on to its next element, or is exhausted
NextIteration(n) ==
    IF i + 1 < Len(unentered)
    THEN pc' = "enter" /\ i' = i + 1 /\ UNCHANGED ret
    ELSE ReturnCount(n) /\ UNCHANGED i

\* the loop body after try_enter_raffle returned ok, nattempts calls so far
AfterAttempt(ok, nattempts) ==
    IF BreaksLoop(ok)
    THEN /\ ReturnCount(new_entered_cnt)
         /\ UNCHANGED <<i, new_entered_cnt, total_entered_cnt, sleeps, err>>
    ELSE LET n == IF ok THEN new_entered_cnt + 1 ELSE new_entered_cnt
             t == IF ok THEN total_entered_cnt + 1 ELSE total_entered_cnt
         IN /\ new_entered_cnt' = n
            /\ total_entered_cnt' = t
            /\ err' = err
            /\ IF ShouldSleep(i, unentered)
               THEN /\ pc' = "sleep"
                    /\ sleeps' = Append(sleeps, nattempts)
                    /\ UNCHANGED <<i, ret>>
               ELSE /\ NextIteration(n)
                    /\ UNCHANGED sleeps

\* br.open(MAIN_RAFFLE_URL) and get_csrf_hash on the main page
FetchMain ==
    /\ pc = "start"
    /\ \E page \in MainPages :
         LET token == get_csrf_hash(page)
         IN /\ requests' = Append(requests, Request("main", EmptyId, "", ""))
            /\ csrf' = token
            /\ IF MainTokenAbsent(token)
               THEN pc' = "returned" /\ ret' = ReturnFalse /\ UNCHANGED gar
               ELSE pc' = "paginate" /\ gar' = "running" /\ UNCHANGED ret
    /\ UNCHANGED <<listing, accepted, lastid, raffles, unentered, i, new_entered_cnt,
                   total_entered_cnt, post_data, inflight, json_resp, err,
                   interrupted_at, batches, attempts, outcomes, sleeps>>
    /\ UNCHANGED aux

\* one turn of the loop of get_all_raffles; when the loop ends, the return to
\* try_enter_all_raffles and what it does up to the first entry attempt
Paginate ==
    /\ pc = "paginate"
    /\ Len(batches) < MaxPages
    /\ \E resp \in PaginateResponses(lastid) :
         LET got == get_raffle_batch(resp)
             acc == raffles \o got.raffles
             parts == Partition(acc)
         IN /\ requests' = Append(requests, Request("paginate", lastid, "", csrf))
            /\ json_resp' = [op |-> "paginate", success |-> resp.success]
            /\ batches' = Append(batches, got)
            /\ IF ~got.ok
               THEN \* get_all_raffles returns False; reversed(False) is a TypeError
                    /\ gar' = "False"
                    /\ Raise("TypeError")
                    /\ UNCHANGED <<lastid, raffles, unentered, i, total_entered_cnt, ret>>
               ELSE IF acc = <<>>
               THEN \* raffles[-1] on the empty list
                    /\ gar' = "IndexError"
                    /\ Raise("IndexError")
                    /\ UNCHANGED <<lastid, raffles, unentered, i, total_entered_cnt, ret>>
               ELSE /\ raffles' = acc
                    /\ lastid' = Last(acc).id
                    /\ IF got.done
                       THEN /\ gar' = "list"
                            /\ unentered' = parts.unentered
                            /\ total_entered_cnt' = total_entered_cnt + parts.total_entered_cnt
                            /\ i' = 0
                            /\ IF parts.unentered = <<>>
                               THEN ReturnCount(new_entered_cnt) /\ UNCHANGED err
                               ELSE pc' = "enter" /\ UNCHANGED <<ret, err>>
                       ELSE UNCHANGED <<pc, gar, unentered, i, total_entered_cnt, ret, err>>
    /\ UNCHANGED <<listing, accepted, csrf, new_entered_cnt, post_data, inflight,
                   interrupted_at, attempts, outcomes, sleeps>>
    /\ UNCHANGED aux

\* try_enter_raffle up to the construction of post_data: the detail page is
\* fetched, its token and the button's hash are read
EnterFetch ==
    /\ pc = "enter"
    /\ \E page \in RafflePages :
         LET raffle_id == LoopOrder(unentered)[i + 1]
             token == get_csrf_hash(page)
         IN /\ attempts' = Append(attempts, raffle_id)
            /\ requests' = Append(requests, Request("detail", Upper(raffle_id), "", ""))
            /\ IF DetailTokenAbsent(token)
               THEN /\ outcomes' = Append(outcomes, Outcome("False", JAbsent))
                    /\ AfterAttempt(FALSE, Len(attempts) + 1)
                    /\ UNCHANGED post_data
               ELSE IF ~page.button.present
               THEN \* button is None: button.get raises
                    /\ outcomes' = Append(outcomes, Outcome("AttributeError", JAbsent))
                    /\ Raise("AttributeError")
                    /\ UNCHANGED <<post_data, ret, i, new_entered_cnt, total_entered_cnt, sleeps>>
               ELSE IF Len(page.button.args) < 2
               THEN \* button_args[1] on a one-element list
                    /\ outcomes' = Append(outcomes, Outcome("IndexError", JAbsent))
                    /\ Raise("IndexError")
                    /\ UNCHANGED <<post_data, ret, i, new_entered_cnt, total_entered_cnt, sleeps>>
               ELSE /\ post_data' = [raffle |-> Upper(raffle_id),
                                     hash |-> page.button.args[2],
                                     csrf |-> token]
                    /\ pc' = "submit"
                    /\ UNCHANGED <<outcomes, ret, err, i, new_entered_cnt,
                                   total_entered_cnt, sleeps>>
    /\ UNCHANGED <<listing, accepted, csrf, lastid, raffles, gar, unentered, inflight,
                   json_resp, interrupted_at, batches>>
    /\ UNCHANGED aux

\* try_enter_raffle: br.open(req) sends the form; the upstream answers
EnterSubmit ==
    /\ pc = "submit"
    /\ \E resp \in EnterResponses :
         /\ requests' = Append(requests, Request("enter", post_data.raffle,
                                                 post_data.hash, post_data.csrf))
         /\ inflight' = resp
         /\ accepted' = IF resp.success = JBool(TRUE) THEN accepted + 1 ELSE accepted
    /\ pc' = "await"
    /\ UNCHANGED <<listing, csrf, lastid, raffles, gar, unentered, i, new_entered_cnt,
                   total_entered_cnt, post_data, json_resp, ret, err, interrupted_at,
                   batches, attempts, outcomes, sleeps>>
    /\ UNCHANGED aux

\* try_enter_raffle reads the answer and returns; the loop body goes on
EnterResponse ==
    /\ pc = "await"
    /\ json_resp' = [op |-> "enter", success |-> inflight.success]
    /\ inflight' = NoInflight
    /\ IF ~inflight.has_message
       THEN \* json_resp['message'] on a response without it
            /\ outcomes' = Append(outcomes, Outcome("KeyError", JAbsent))
            /\ Raise("KeyError")
            /\ UNCHANGED <<ret, i, new_entered_cnt, total_entered_cnt, sleeps>>
       ELSE LET ok == IsSuccess(inflight.success)
            IN /\ outcomes' = Append(outcomes, Outcome(IF ok THEN "True" ELSE "False",
                                                       inflight.success))
               /\ AfterAttempt(ok, Len(attempts))
    /\ UNCHANGED <<listing, accepted, csrf, lastid, raffles, gar, unentered, post_data,
                   interrupted_at, requests, batches, attempts>>
    /\ UNCHANGED aux

\* sleep(delay) returns
Wake ==
    /\ pc = "sleep"
    /\ NextIteration(new_entered_cnt)
    /\ UNCHANGED <<listing, accepted, csrf, lastid, raffles, gar, unentered,
                   new_entered_cnt, total_entered_cnt, post_data, inflight, json_resp,
                   err, interrupted_at, requests, batches, attempts, outcomes, sleeps>>
    /\ UNCHANGED aux

\* mutant of Interrupt: no "except KeyboardInterrupt", the interrupt leaves
\* try_enter_all_raffles as an unhandled error
Interrupt_Uncaught ==
    /\ pc \in {"start", "paginate", "enter", "submit", "await", "sleep"}
    /\ interrupted_at' = pc
    /\ Raise("KeyboardInterrupt")
    /\ outcomes' = IF pc \in {"submit", "await"}
                   THEN Append(outcomes, Outcome("KeyboardInterrupt", JAbsent))
                   ELSE outcomes
    /\ UNCHANGED <<listing, accepted, csrf, lastid, raffles, gar, unentered, i,
                   new_entered_cnt, total_entered_cnt, post_data, inflight, json_resp,
                   ret, requests, batches, attempts, sleeps>>
    /\ UNCHANGED aux

\* KeyboardInterrupt inside the try block: "except KeyboardInterrupt", then
\* "return new_entered_cnt"
Interrupt ==
    /\ pc \in {"start", "paginate", "enter", "submit", "await", "sleep"}
    /\ interrupted_at' = pc
    /\ ReturnCount(new_entered_cnt)
    /\ outcomes' = IF pc \in {"submit", "await"}
                   THEN Append(outcomes, Outcome("KeyboardInterrupt", JAbsent))
                   ELSE outcomes
    /\ UNCHANGED <<listing, accepted, csrf, lastid, raffles, gar, unentered, i,
                   new_entered_cnt, total_entered_cnt, post_data, inflight, json_resp,
                   err, requests, batches, attempts, sleeps>>
    /\ UNCHANGED aux

Next ==
    \/ FetchMain
    \/ Paginate
    \/ EnterFetch
    \/ EnterSubmit
    \/ EnterResponse
    \/ Wake
    \/ Interrupt

Spec == Init /\ [][Next]_vars

-----------------------------------------------------------------------------
(* main, after try_enter_all_raffles *)

\* cj.save(...): the last statement of main
SaveCookies ==
    /\ cookies_saved' = cookies_saved + 1
    /\ mpc' = "done"

\* an exception leaves main before cj.save
MainRaise ==
    /\ mpc' = "raised"
    /\ UNCHANGED cookies_saved

\* main from the return of try_enter_all_raffles: get_num_raffles, the report
\* of the stats and cj.save
MainStats ==
    /\ pc = "returned"
    /\ mpc = "run"
    /\ \E stat_page \in StatPages :
         LET num == get_num_raffles(stat_page)
         IN /\ num_resp' = num
            /\ IF num = NumRaised
               THEN \* the ValueError of get_num_raffles is not caught
                    MainRaise /\ UNCHANGED printed
               ELSE IF StatsMissing(num)
               THEN printed' = "Could not load raffle stats" /\ SaveCookies
               ELSE IF num = NumFalse
               THEN \* "entered, total = num_resp" on False is a TypeError
                    MainRaise /\ UNCHANGED printed
               ELSE printed' = "entered/total raffles entered" /\ SaveCookies
    /\ UNCHANGED <<listing, accepted, pc, csrf, lastid, raffles, gar, unentered, i,
                   new_entered_cnt, total_entered_cnt, post_data, inflight, json_resp,
                   ret, err, interrupted_at, requests, batches, attempts, outcomes,
                   sleeps, scanned, first>>

\* KeyboardInterrupt during get_num_raffles: "except KeyboardInterrupt", then
\* cj.save
MainInterrupt ==
    /\ pc = "returned"
    /\ mpc = "run"
    /\ printed' = "Canceled fetching of raffle stats"
    /\ SaveCookies
    /\ UNCHANGED <<listing, accepted, pc, csrf, lastid, raffles, gar, unentered, i,
                   new_entered_cnt, total_entered_cnt, post_data, inflight, json_resp,
                   ret, err, interrupted_at, requests, batches, attempts, outcomes,
                   sleeps, num_resp, scanned, first>>

\* the exception that left try_enter_all_raffles leaves main as well
MainPropagate ==
    /\ pc = "raised"
    /\ mpc = "run"
    /\ MainRaise
    /\ UNCHANGED <<listing, accepted, pc, csrf, lastid, raffles, gar, unentered, i,
                   new_entered_cnt, total_entered_cnt, post_data, inflight, json_resp,
                   ret, err, interrupted_at, requests, batches, attempts, outcomes,
                   sleeps, num_resp, printed, scanned, first>>

NextMain ==
    \/ Next
    \/ MainStats
    \/ MainInterrupt
    \/ MainPropagate

SpecMain == Init /\ [][NextMain]_vars

-----------------------------------------------------------------------------
(* two runs of try_enter_all_raffles, one after the other *)

\* the listings of the two runs hold at most this many raffles
MaxPairRaffles == 2

PairListings == {l \in Listings : Len(l) <= MaxPairRaffles}

\* the way the run ended: the entry loop ran out of unentered raffles, broke
\* on a try_enter_raffle that returned False, or was left by
\* KeyboardInterrupt; "no token" is the 'return False' before the loop and
\* "error" an exception nothing caught
EndKind ==
    CASE pc = "raised" -> "error"
      [] pc # "returned" -> "running"
      [] interrupted_at # None -> "cancelled"
      [] ret = ReturnFalse -> "no token"
      [] outcomes # <<>> /\ Last(outcomes).ret = "False" -> "stopped"
      [] OTHER -> "completed"

LoopEnds == {"completed", "stopped", "cancelled"}

InitPair ==
    /\ listing \in PairListings
    /\ accepted = 0
    /\ pc = "start"
    /\ csrf = None
    /\ lastid = EmptyId
    /\ raffles = <<>>
    /\ gar = "none"
    /\ unentered = <<>>
    /\ i = 0
    /\ new_entered_cnt = 0
    /\ total_entered_cnt = 0
    /\ post_data = NoPostData
    /\ inflight = NoInflight
    /\ json_resp = NoResponse
    /\ ret = NoReturn
    /\ err = None
    /\ interrupted_at = None
    /\ requests = <<>>
    /\ batches = <<>>
    /\ attempts = <<>>
    /\ outcomes = <<>>
    /\ sleeps = <<>>
    /\ mpc = "run"
    /\ num_resp = NotCalled
    /\ cookies_saved = 0
    /\ printed = ""
    /\ scanned = NoPage
    /\ first = NoFirst

\* the first run is over: keep how it ended and what it returned, and call
\* try_enter_all_raffles again on whatever the platform lists by then
Restart ==
    /\ pc \in {"returned", "raised"}
    /\ first = NoFirst
    /\ first' = [how |-> EndKind, ret |-> ret]
    /\ listing' \in PairListings
    /\ accepted' = 0
    /\ pc' = "start"
    /\ csrf' = None
    /\ lastid' = EmptyId
    /\ raffles' = <<>>
    /\ gar' = "none"
    /\ unentered' = <<>>
    /\ i' = 0
    /\ new_entered_cnt' = 0
    /\ total_entered_cnt' = 0
    /\ post_data' = NoPostData
    /\ inflight' = NoInflight
    /\ json_resp' = NoResponse
    /\ ret' = NoReturn
    /\ err' = None
    /\ interrupted_at' = None
    /\ requests' = <<>>
    /\ batches' = <<>>
    /\ attempts' = <<>>
    /\ outcomes' = <<>>
    /\ sleeps' = <<>>
    /\ UNCHANGED <<mpc, num_resp, cookies_saved, printed, scanned>>

NextPair ==
    \/ Next
    \/ Restart

SpecPair == InitPair /\ [][NextPair]_vars

-----------------------------------------------------------------------------
(* get_csrf_hash on its own: one call on any page *)

InitCsrf ==
    /\ listing = <<>>
    /\ accepted = 0
    /\ pc = "scan"
    /\ csrf = None
    /\ lastid = EmptyId
    /\ raffles = <<>>
    /\ gar = "none"
    /\ unentered = <<>>
    /\ i = 0
    /\ new_entered_cnt = 0
    /\ total_entered_cnt = 0
    /\ post_data = NoPostData
    /\ inflight = NoInflight
    /\ json_resp = NoResponse
    /\ ret = NoReturn
    /\ err = None
    /\ interrupted_at = None
    /\ requests = <<>>
    /\ batches = <<>>
    /\ attempts = <<>>
    /\ outcomes = <<>>
    /\ sleeps = <<>>
    /\ mpc = "run"
    /\ num_resp = NotCalled
    /\ cookies_saved = 0
    /\ printed = ""
    /\ scanned \in RafflePages
    /\ first = NoFirst

\* csrf = get_csrf_hash(resp)
ScanPage ==
    /\ pc = "scan"
    /\ csrf' = get_csrf_hash(scanned)
    /\ pc' = "scanned"
    /\ UNCHANGED <<listing, accepted, lastid, raffles, gar, unentered, i,
                   new_entered_cnt, total_entered_cnt, post_data, inflight, json_resp,
                   ret, err, interrupted_at, requests, batches, attempts, outcomes,
                   sleeps, mpc, num_resp, cookies_saved, printed, scanned, first>>

NextCsrf == ScanPage

SpecCsrf == InitCsrf /\ [][NextCsrf]_vars

-----------------------------------------------------------------------------
(* Readings of the histories *)

RunOver == pc \in {"returned", "raised"}

PaginateRequests == SelectSeq(requests, LAMBDA r : r.op = "paginate")

\* the cursors of the Paginate calls, in the order of the calls
Cursors == [k \in 1..Len(PaginateRequests) |-> PaginateRequests[k].id]

RECURSIVE Flatten(_)
Flatten(bs) == IF bs = <<>> THEN <<>> ELSE Head(bs).raffles \o Flatten(Tail(bs))

\* the identifiers of the raffles of rs not marked entered, oldest first
OldestFirstUnentered(rs) ==
    LET open == SelectSeq(rs, LAMBDA r : ~r.entered)
    IN [k \in 1..Len(open) |-> open[Len(open) + 1 - k].id]

Successes == Cardinality({k \in 1..Len(outcomes) : outcomes[k].ret = "True"})

Max(a, b) == IF a > b THEN a ELSE b

-----------------------------------------------------------------------------
(* Claims *)

\* C1: for every listing returned newest first, the raffles not marked
\* entered are attempted oldest first (the reverse of the listing order) and
\* the raffles marked entered are skipped: at every moment the calls of
\* try_enter_raffle made so far are the beginning of that order.
C1_OldestFirstOrder ==
    gar = "list" => IsPrefix(attempts, OldestFirstUnentered(raffles))

\* C2: fail-fast.  Once a call of try_enter_raffle has returned False it is
\* the last call of the run, the run has returned, and the count it returned
\* is the number of calls that returned True before it.
C2_FailFast ==
    \A k \in 1..Len(outcomes) :
        outcomes[k].ret = "False" =>
            /\ k = Len(attempts)
            /\ pc = "returned"
            /\ ret = ReturnInt(Successes)

\* C2 witness: the first attempt succeeded, the second was rejected, a third
\* unentered raffle was left alone and 1 was returned.
C2_Witness ==
    /\ pc = "returned"
    /\ Len(unentered) = 3
    /\ Len(attempts) = 2
    /\ Len(outcomes) = 2
    /\ outcomes[1].ret = "True"
    /\ outcomes[2] = Outcome("False", JBool(FALSE))
    /\ ret = ReturnInt(1)

\* C3: when the main page was fetched and no token was found on it, the run
\* has ended with the main page as its only request: no Paginate call, no
\* detail page, no submission, no entry attempt.
C3_NoTokenNoRequests ==
    (Len(requests) >= 1 /\ csrf = None) =>
        /\ pc = "returned"
        /\ Len(requests) = 1
        /\ requests[1].op = "main"
        /\ attempts = <<>>
        /\ batches = <<>>

\* C3 witness: the run ended on a main page without a token although the
\* listing holds a raffle that is not entered.
C3_Witness ==
    /\ pc = "returned"
    /\ Len(requests) = 1
    /\ csrf = None
    /\ \E k \in 1..Len(listing) : ~listing[k].entered

\* C4: when a Paginate response (the first or a later one) reports
\* success = false, get_all_raffles returns False, which carries none of the
\* batches collected, the run is over and it has made no entry attempt.
C4_FailedPageNoEntries ==
    (json_resp.op = "paginate" /\ json_resp.success = JBool(FALSE)) =>
        /\ gar = "False"
        /\ RunOver
        /\ attempts = <<>>
        /\ \A k \in 1..Len(requests) : requests[k].op \in {"main", "paginate"}

\* C4 witness: the second page failed after a first page that brought a
\* raffle not yet entered.
C4_Witness ==
    /\ Len(batches) = 2
    /\ batches[1].ok
    /\ \E k \in 1..Len(batches[1].raffles) : ~batches[1].raffles[k].entered
    /\ json_resp = [op |-> "paginate", success |-> JBool(FALSE)]
    /\ gar = "False"

\* C5: on every early-stop path (no token on the main page, a failed
\* Paginate response, an attempt that returned False, cancellation) the run
\* ends by returning a count: never an unhandled error, never another value.
C5_EarlyStopReturnsCount ==
    \/ /\ Len(requests) >= 1
       /\ csrf = None
    \/ /\ batches # <<>>
       /\ ~Last(batches).ok
    \/ /\ outcomes # <<>>
       /\ Last(outcomes).ret = "False"
    \/ interrupted_at # None
    => /\ pc = "returned"
       /\ ret.type = "int"

\* C6: the first Paginate call uses the empty cursor, every later call uses
\* the last identifier of the batch received just before it, and when the
\* batches all were successful and the last one reported completion,
\* get_all_raffles returns their concatenation.
C6_ConcatenationAndCursors ==
    /\ Len(Cursors) >= 1 => Cursors[1] = EmptyId
    /\ \A k \in 2..Len(Cursors) :
           /\ batches[k - 1].raffles # <<>>
           /\ Cursors[k] = Last(batches[k - 1].raffles).id
    /\ (/\ batches # <<>>
        /\ \A k \in 1..Len(batches) : batches[k].ok
        /\ Last(batches).done)
       => /\ gar = "list"
          /\ raffles = Flatten(batches)

\* C7: get_all_raffles never spins.  After a successful response with an
\* empty batch and done = false no further Paginate call is made with the
\* same cursor.  (The claim also asks for a failure to be returned; already
\* this part of it decides the claim.)
C7_NoRepeatedCursor ==
    \A k \in 1..Len(batches) :
        (batches[k].ok /\ batches[k].raffles = <<>> /\ ~batches[k].done) =>
            ~(Len(Cursors) > k /\ Cursors[k + 1] = Cursors[k])

\* C8: the first response reporting done = true is the last Paginate call,
\* and get_all_raffles then returns the accumulated list, also when that
\* batch is empty; for a listing without raffles (first batch empty and done)
\* the result is the empty list and the run returns without entry attempts.
C8_StopsAtDone ==
    \A k \in 1..Len(batches) :
        (batches[k].ok /\ batches[k].done) =>
            /\ k = Len(batches)
            /\ Len(Cursors) = k
            /\ gar = "list"
            /\ raffles = Flatten(batches)
            /\ raffles = <<>> => (pc = "returned" /\ attempts = <<>>)

\* C9: try_enter_raffle returns True only when the 'success' field of the
\* submission response is the boolean true; for false and for every value
\* that is no boolean (a string, a number, null) it does not.
C9_SuccessOnlyOnTrue ==
    \A k \in 1..Len(outcomes) :
        /\ outcomes[k].ret = "True" => outcomes[k].success = JBool(TRUE)
        /\ outcomes[k].success \in JsonValues \ {JBool(TRUE)} => outcomes[k].ret = "False"

\* C9 witness: the response {"success": "yes", "message": ...} was read and
\* the call returned False.
C9_Witness ==
    /\ outcomes # <<>>
    /\ Last(outcomes) = Outcome("False", JStr("yes"))
    /\ json_resp = [op |-> "enter", success |-> JStr("yes")]

\* C10 as stated: when a run is over, the number of delays is the number of
\* attempts minus one (zero without attempts), so no delay follows the last
\* attempt of the run.
C10_DelaysOneLessThanAttempts ==
    RunOver => Len(sleeps) = Max(Len(attempts) - 1, 0)

\* C10 amended: the k-th delay is started right after the k-th attempt, which
\* succeeded and was not on the last unentered raffle; every attempt but the
\* first directly follows a delay; and when a run is over the
\* number of delays is the number of attempts minus one (zero without
\* attempts), unless the run was cancelled during a delay or after it before
\* the next attempt began: then it equals the number of attempts.
C10_DelaysAmended ==
    /\ \A k \in 1..Len(sleeps) :
           /\ sleeps[k] = k
           /\ outcomes[k].ret = "True"
           /\ k < Len(unentered)
    /\ Len(attempts) - 1 <= Len(sleeps)
    /\ RunOver =>
           Len(sleeps) = IF interrupted_at \in {"sleep", "enter"}
                         THEN Len(attempts)
                         ELSE Max(Len(attempts) - 1, 0)

\* C10 witness: a run that was not cancelled made three attempts, the last
\* on the last unentered raffle, with two delays.
C10_Witness ==
    /\ pc = "returned"
    /\ interrupted_at = None
    /\ Len(unentered) = 3
    /\ Len(attempts) = 3
    /\ Len(sleeps) = 2

\* the steps of the run that issue a request
RequestingStep == FetchMain \/ Paginate \/ EnterFetch \/ EnterSubmit

DetailRequests == SelectSeq(requests, LAMBDA r : r.op = "detail")

EnterRequests == SelectSeq(requests, LAMBDA r : r.op = "enter")

\* the requests of the entry attempts, in the order issued
EntryRequests == SelectSeq(requests, LAMBDA r : r.op \in {"detail", "enter"})

LowerCase == {"a", "b", "c", "d"}

\* the letters as pairs <<lower case, upper case>>
CasePairs == {<<"a", "A">>, <<"b", "B">>, <<"c", "C">>, <<"d", "D">>}

IsUpperCase(id) == \A k \in 1..Len(id) : id[k] \notin LowerCase

SameIgnoringCase(x, y) ==
    /\ Len(x) = Len(y)
    /\ \A k \in 1..Len(x) :
           \/ x[k] = y[k]
           \/ <<x[k], y[k]>> \in CasePairs
           \/ <<y[k], x[k]>> \in CasePairs

\* C11: a cancellation, wherever it arrives (main page, pagination, entry
\* attempt, delay), ends the run by a return, not by an error: the returned
\* value is the new-entry count accumulated so far, and no step that issues a
\* request can follow.
C11_CancellationReturnsCount ==
    interrupted_at # None =>
        /\ pc = "returned"
        /\ err = None
        /\ ret = ReturnInt(new_entered_cnt)
        /\ new_entered_cnt = Successes
        /\ ~ENABLED RequestingStep

\* C11 witness: the run was cancelled during its second entry attempt and
\* returned the one entry made before.
C11_Witness ==
    /\ interrupted_at = "await"
    /\ Len(attempts) = 2
    /\ new_entered_cnt = 1
    /\ ret = ReturnInt(1)

\* C12: at the end of a cancelled run the returned new-entry count equals the
\* number of submissions the platform accepted during the run (an attempt in
\* flight is completed and counted before the run stops).
C12_CancelledCountEqualsAccepted ==
    (pc = "returned" /\ interrupted_at # None) => ret = ReturnInt(accepted)

\* C13: the identifier of every detail-page URL is in upper case and is the
\* argument of the call but for case; an argument already in upper case is
\* used unchanged; arguments that differ only in case give the same URL; and
\* the 'raffle' field of every submission is the identifier of the URL
\* fetched just before it.
C13_OneUpperCaseForm ==
    /\ Len(DetailRequests) = Len(attempts)
    /\ \A k \in 1..Len(DetailRequests) :
           /\ IsUpperCase(DetailRequests[k].id)
           /\ SameIgnoringCase(DetailRequests[k].id, attempts[k])
           /\ IsUpperCase(attempts[k]) => DetailRequests[k].id = attempts[k]
           /\ \A j \in 1..Len(DetailRequests) :
                  SameIgnoringCase(attempts[j], attempts[k])
                      => DetailRequests[j].id = DetailRequests[k].id
    /\ \A k \in 1..Len(EntryRequests) :
           EntryRequests[k].op = "enter" =>
               /\ k > 1
               /\ EntryRequests[k - 1].op = "detail"
               /\ EntryRequests[k].id = EntryRequests[k - 1].id

\* C13 witness: A5 and a5, which differ only in case, were both attempted and
\* both submitted, and b4 was submitted as B4.
C13_Witness ==
    /\ attempts = << <<"A", "5">>, <<"b", "4">>, <<"a", "5">> >>
    /\ Len(EnterRequests) = 3
    /\ EnterRequests[2].id = <<"B", "4">>
    /\ EnterRequests[3].id = EnterRequests[1].id

\* C15: every call of try_enter_raffle issues exactly one detail-page fetch
\* and at most one submission, the fetch first: the requests of the entry
\* attempts start with a fetch and every submission directly follows a
\* fetch.  No submission goes out without a token from the detail page: a
\* call that returned False without reading a response ended at its fetch.
C15_FetchThenAtMostOneSubmission ==
    /\ Len(DetailRequests) = Len(attempts)
    /\ Len(EnterRequests) <= Len(DetailRequests)
    /\ \A k \in 1..Len(EntryRequests) :
           EntryRequests[k].op = "enter" => (k > 1 /\ EntryRequests[k - 1].op = "detail")
    /\ \A k \in 1..Len(EnterRequests) : EnterRequests[k].csrf \in Tokens
    /\ \A k \in 1..Len(outcomes) :
           outcomes[k] = Outcome("False", JAbsent) =>
               /\ Last(requests).op = "detail"
               /\ Len(EnterRequests) < k

\* C15 witness: the first call fetched and submitted, the second found no
\* token on its detail page and returned False without a submission.
C15_Witness ==
    /\ Len(outcomes) = 2
    /\ outcomes[1].ret = "True"
    /\ outcomes[2] = Outcome("False", JAbsent)
    /\ Len(DetailRequests) = 2
    /\ Len(EnterRequests) = 1

\* C16: with a token on the detail page but no enter button, or a button
\* whose onclick call has no second argument, try_enter_raffle returns and
\* the run does not end in the unhandled error of that page.
C16_ButtonTroubleIsHandled ==
    /\ \A k \in 1..Len(outcomes) : outcomes[k].ret \notin {"AttributeError", "IndexError"}
    /\ (pc = "raised" /\ attempts # <<>>) => err \notin {"AttributeError", "IndexError"}

EnteredListed == Len(SelectSeq(raffles, LAMBDA r : r.entered))

UnenteredListed == Len(SelectSeq(raffles, LAMBDA r : ~r.entered))

\* C18: after partitioning, total_entered_cnt is the number of listed raffles
\* marked entered plus new_entered_cnt, new_entered_cnt is at most the number
\* of unentered raffles and total_entered_cnt at most the number of listed
\* raffles; from then on a step either leaves both counters alone or adds one
\* to both, and then a call of try_enter_raffle has just returned True.
C18_CounterInvariant ==
    /\ [](gar = "list" =>
            /\ total_entered_cnt = EnteredListed + new_entered_cnt
            /\ new_entered_cnt <= UnenteredListed
            /\ total_entered_cnt <= Len(raffles))
    /\ [][gar = "list" =>
            \/ /\ new_entered_cnt' = new_entered_cnt
               /\ total_entered_cnt' = total_entered_cnt
            \/ /\ new_entered_cnt' = new_entered_cnt + 1
               /\ total_entered_cnt' = total_entered_cnt + 1
               /\ Len(outcomes') = Len(outcomes) + 1
               /\ Last(outcomes').ret = "True"]_vars

\* C18 witness: one listed raffle was marked entered and the two others have
\* been entered by the run.
C18_Witness ==
    /\ gar = "list"
    /\ Len(raffles) = 3
    /\ EnteredListed = 1
    /\ new_entered_cnt = 2
    /\ total_entered_cnt = 3

\* C19: for a listing without duplicate identifiers, no identifier is the
\* argument of two calls of try_enter_raffle, every argument is a listed
\* raffle not marked entered, and an identifier whose call failed is not the
\* argument of a later call.
C19_NoRetryNoReentry ==
    (\A m, n \in 1..Len(raffles) : m # n => raffles[m].id # raffles[n].id) =>
        /\ \A j, k \in 1..Len(attempts) : j # k => attempts[j] # attempts[k]
        /\ \A k \in 1..Len(attempts) :
               \E m \in 1..Len(raffles) :
                   raffles[m].id = attempts[k] /\ ~raffles[m].entered
        /\ \A k \in 1..Len(outcomes) :
               outcomes[k].ret # "True" =>
                   \A j \in 1..Len(attempts) : j > k => attempts[j] # attempts[k]

\* C19 witness: of three listed raffles one was marked entered; the run
\* entered one of the others, failed on the last and stopped after these two
\* calls.
C19_Witness ==
    /\ pc = "returned"
    /\ Len(raffles) = 3
    /\ EnteredListed = 1
    /\ Len(attempts) = 2
    /\ Len(outcomes) = 2
    /\ outcomes[1].ret = "True"
    /\ outcomes[2].ret = "False"

\* the positions of the script blocks of a page that hold the marker
Marked(scripts) == {k \in 1..Len(scripts) : scripts[k].marker}

\* C17 as stated: get_csrf_hash returns the token of the first script block,
\* in document order, that holds the marker, and None exactly when no block
\* holds it.
C17_FirstBlockWins ==
    pc = "scanned" =>
        LET m == Marked(scanned.scripts)
        IN IF m = {} THEN csrf = None
           ELSE csrf = scanned.scripts[CHOOSE k \in m : \A j \in m : k <= j].value

\* C17 amended: get_csrf_hash returns the token of the last script block, in
\* document order, that holds the marker, whatever the earlier blocks
\* contain, and None exactly when no block holds it.
C17_LastBlockWins ==
    pc = "scanned" =>
        LET m == Marked(scanned.scripts)
        IN /\ csrf = None <=> m = {}
           /\ m # {} => csrf = scanned.scripts[CHOOSE k \in m : \A j \in m : k >= j].value

\* C17 witness: two blocks hold the marker with different tokens and the
\* token of the second was returned.
C17_Witness ==
    /\ pc = "scanned"
    /\ Len(scanned.scripts) = 2
    /\ scanned.scripts[1] = [marker |-> TRUE, value |-> "t1"]
    /\ scanned.scripts[2] = [marker |-> TRUE, value |-> "t2"]
    /\ csrf = "t2"

MainOver == mpc \in {"done", "raised"}

\* C20: on every way the run can end, main saves the cookie jar exactly
\* once, after the run; when get_num_raffles reports failure main prints
\* that the stats could not be loaded and still saves the cookies.
C20_CookiesSavedOnce ==
    /\ cookies_saved <= 1
    /\ cookies_saved = 1 => RunOver
    /\ MainOver => cookies_saved = 1
    /\ (MainOver /\ num_resp = NumFalse) => printed = "Could not load raffle stats"

\* both runs are over, each ended its entry loop, and in different ways
TwoDifferentEnds ==
    /\ first # NoFirst
    /\ first.how \in LoopEnds
    /\ EndKind \in LoopEnds
    /\ first.how # EndKind

\* C14 as stated: two runs that end in different ways never return the same
\* result.
C14_DifferentEndsDifferentResults == TwoDifferentEnds => first.ret # ret

\* C14: the value a run returns is the count of attempts that came back True
\* and nothing else (or False when the main page holds no token); it does not
\* tell the way the loop ended, so two runs that ended differently return the
\* same value whenever their counts are the same.
C14_ResultIsCountAlone ==
    /\ pc = "returned" =>
           \/ ret = ReturnFalse /\ csrf = None /\ attempts = <<>>
           \/ ret = ReturnInt(Successes)
    /\ first # NoFirst => first.ret \in {NoReturn, ReturnFalse} \cup {ReturnInt(n) : n \in 0..MaxPairRaffles}

C14_Witness ==
    /\ TwoDifferentEnds
    /\ first.how = "stopped"
    /\ EndKind = "completed"
    /\ first.ret = ReturnInt(1)
    /\ ret = ReturnInt(1)
    /\ Successes = 1

====
